---- MODULE Spec2Model ----
(***************************************************************************)
(* The quiz session engine of server.js: question acquisition              *)
(* (generateQuizQuestions: model call, cleaning, JSON.parse, slice,        *)
(* fallback pool), the session store (quizSessions) and the four HTTP      *)
(* handlers (POST /api/quiz/new, POST /api/quiz/:sessionId/answer,         *)
(* GET /api/quiz/:sessionId/results, GET /api/quiz/:sessionId).            *)
(*                                                                         *)
(* JavaScript values are modelled as follows.                              *)
(*   - A value that may be undefined is a tuple of length <= 1:            *)
(*     <<>> is undefined, <<v>> is the defined value v.                    *)
(*   - An object is a TLA+ record; a missing property is a missing field.  *)
(*   - An array or a string (both have length, slice) is a record          *)
(*     [type |-> "array" | "string", items |-> <<...>>].                   *)
(*   - Question indexes are 0-based as in the source; items[i + 1] is the  *)
(*     element at JavaScript index i.                                      *)
(***************************************************************************)
EXTENDS Integers, Sequences, FiniteSets, TLC

\* ------------------------------------------------------------------ bounds
\* Largest value Date.now() takes in a behaviour (the clock starts at 1).
MaxClock == 2
\* Largest number of steps of a behaviour: a step is a clock tick, a handler,
\* or the part of a handler between two awaits.
MaxSteps == 6
\* Questions of the quiz the browser plays.
MaxQuestions == 3
\* Largest number of presses of Next (clicks and Enter keys) in a behaviour.
MaxPresses == 2
\* Ticks of a countdown followed below zero.
MaxOverrun == 1
\* Largest number of quizzes the browser finishes in a behaviour.
MaxQuizzes == 3

\* ------------------------------------------------------- program constants
\* generateQuizQuestions(difficulty, 10)
QuizCount == 10
\* every fallback list holds ten records
PoolSize == 10
\* this.timeLeft = 60
TimerSeconds == 60
\* 86400000 ms, the step back from Date.now() to yesterday, in hours
DayHours == 24

Min(a, b) == IF a <= b THEN a ELSE b
Max(a, b) == IF a >= b THEN a ELSE b

\* ---------------------------------------------------------- JS primitives
Undefined == <<>>
Def(v) == <<v>>

\* obj[key] of an object or a sparse array: undefined when the key is absent
Get(obj, key) == IF key \in DOMAIN obj THEN Def(obj[key]) ELSE Undefined

\* a === b on values that may be undefined
StrictEq(a, b) == a = b

Array(items) == [type |-> "array", items |-> items]
String(items) == [type |-> "string", items |-> items]
\* one character of a string
Char(c) == [char |-> c]
Length(v) == Len(v.items)

\* The end index of slice(0, count) on len elements: a negative count is
\* taken from the end.
SliceEnd(len, count) == IF count < 0 THEN Max(len + count, 0) ELSE Min(count, len)

\* The list taken round again until count elements are there.
TakeWrapped(list, count) ==
    IF Len(list) = 0 THEN list
    ELSE [k \in 1..Max(count, 0) |-> list[((k - 1) % Len(list)) + 1]]

\* list.slice(0, count) on the elements of an array or a string
Take(list, count) == SubSeq(list, 1, SliceEnd(Len(list), count))

\* The value padded with its last element up to count elements.
SlicePadded(v, count) ==
    [v EXCEPT !.items =
        IF Len(@) = 0 THEN @
        ELSE [k \in 1..Max(count, 0) |-> @[Min(k, Len(@))]]]

\* v.slice(0, count), defined on arrays and strings alike
Slice(v, count) == [v EXCEPT !.items = Take(@, count)]

\* A promise that rejects: the error thrown out of an async function.
Thrown == [type |-> "thrown", items |-> <<>>]

\* NaN, the one non-integer number the engine can produce
NaN == <<>>
Num(n) == <<n>>


\* ------------------------------------------------------------------- state
VARIABLES
    clock,          \* Date.now()
    apiKey,         \* process.env.GEMINI_API_KEY, fixed when the process starts
    quizSessions,   \* the Map: session id -> session object
    pending,        \* the POST /api/quiz/new request suspended on an await
    resp,           \* the response sent by the handler that ran last
    delivered,      \* history, per id: the last results body sent for the
                    \* session object now stored under that id, and whether
                    \* an answer was submitted since (Undefined: none sent)
    steps,          \* steps taken so far
    app             \* the QuizApp object of the browser, with the timers and
                    \* the requests the browser holds for it

server == <<clock, apiKey, quizSessions, pending, resp, delivered, steps>>
vars == <<clock, apiKey, quizSessions, pending, resp, delivered, steps, app>>

\* ------------------------------------------------------- the fallback pool
\* The answer key of fallbackQuestions, list by list, in source order.
fallbackCorrect ==
    [basic    |-> <<0, 0, 1, 0, 0, 0, 3, 0, 0, 0>>,
     moderate |-> <<0, 0, 0, 0, 0, 0, 0, 0, 0, 0>>,
     harder   |-> <<0, 0, 0, 0, 0, 0, 0, 0, 0, 0>>]

\* Record i of the list of difficulty d. Texts are not transcribed: the
\* question text is the tuple <<d, i>>, option k is <<d, i, k>> and the
\* explanation is <<"why", d, i>>, so distinct source records stay distinct.
PoolRecord(d, i) ==
    [question    |-> <<d, i>>,
     options     |-> [k \in 1..4 |-> <<d, i, k>>],
     correct     |-> fallbackCorrect[d][i],
     explanation |-> <<"why", d, i>>]

\* One pool object kept for the life of the process, its records handed to
\* the sessions as they are: a record a stored session holds carries the
\* text that session gave it.
fallbackQuestionsShared ==
    [d \in {"basic", "moderate", "harder"} |->
        [i \in 1..PoolSize |->
            LET handed == {q \in UNION {{quizSessions[id].questions.items[k] :
                                            k \in DOMAIN quizSessions[id].questions.items} :
                                         id \in DOMAIN quizSessions} :
                              Get(q, "options") = Def(PoolRecord(d, i).options)}
            IN IF handed = {} THEN PoolRecord(d, i) ELSE CHOOSE q \in handed : TRUE]]

\* Lines 90-277: the literal is built anew by every run of the catch block.
fallbackQuestions ==
    [d \in {"basic", "moderate", "harder"} |-> [i \in 1..PoolSize |-> PoolRecord(d, i)]]

\* The outcomes of [...list].sort(() => Math.random() - 0.5) that are
\* explored: perm[i] is the pool position of the record placed at i.
Rotation(k) == [i \in 1..PoolSize |-> ((i - 1 + k) % PoolSize) + 1]
Shuffles == {Rotation(0), Rotation(2)}

\* `${q.question} (Session: ${timestamp + index})`
WithMarker(text, marker) == Append(text, marker)

\* Property names the object literal fallbackQuestions does not own but
\* inherits from Object.prototype (three of them): reading one yields a
\* function or an object, which is truthy and cannot be spread.
ObjectPrototype == {"constructor", "toString", "__proto__"}
Inherited(difficulty) ==
    difficulty \notin DOMAIN fallbackQuestions /\ difficulty \in ObjectPrototype

\* Every tag served from the basic list.
DifficultyQuestionsBasic(difficulty) == fallbackQuestions.basic

\* Line 280: fallbackQuestions[difficulty] || fallbackQuestions.basic, for a
\* tag whose lookup yields a list or undefined.
DifficultyQuestions(difficulty) ==
    IF difficulty \in DOMAIN fallbackQuestions
    THEN fallbackQuestions[difficulty]
    ELSE fallbackQuestions.basic

\* The catch block of generateQuizQuestions. The spread of line 283 throws
\* on an inherited value, and the error leaves the function.
Fallback(difficulty, count, perm, now) ==
    IF Inherited(difficulty) THEN Thrown
    ELSE
    LET difficultyQuestions == DifficultyQuestions(difficulty)
        shuffled == [i \in 1..Len(difficultyQuestions) |-> difficultyQuestions[perm[i]]]
        timestamp == now
        sliced == Take(shuffled, count)
        uniqueQuestions ==
            [k \in 1..Len(sliced) |->
                [sliced[k] EXCEPT !.question = WithMarker(@, timestamp + (k - 1))]]
    IN Array(uniqueQuestions)

\* ---------------------------------------------------- the model generator
\* process.env.GEMINI_API_KEY
PlaceholderKey == "your_gemini_api_key_here"
ApiKeys == {Undefined, Def(PlaceholderKey), Def("AIza-key")}
KeyConfigured(key) == key # Undefined /\ key # Def("") /\ key # Def(PlaceholderKey)

\* Records the model can emit. gA and gB have the QuestionRecord shape;
\* gShort has two options and an index outside them; gNoKey has no
\* "correct" property.
gA == [question |-> <<"gen", "a">>, options |-> <<"a1", "a2", "a3", "a4">>,
       correct |-> 0, explanation |-> <<"why", "gen", "a">>]
gB == [question |-> <<"gen", "b">>, options |-> <<"b1", "b2", "b3", "b4">>,
       correct |-> 2, explanation |-> <<"why", "gen", "b">>]
gShort == [question |-> <<"gen", "s">>, options |-> <<"s1", "s2">>,
           correct |-> 7, explanation |-> <<"why", "gen", "s">>]
gNoKey == [question |-> <<"gen", "n">>, options |-> <<"n1", "n2", "n3", "n4">>,
           explanation |-> <<"why", "gen", "n">>]

\* What JSON.parse can yield besides an array or a string: a value without
\* a slice method (object, number, boolean, null).
NoSlice == [type |-> "object", items |-> <<>>]
\* Text that is no JSON at all.
Garbage == [type |-> "garbage", items |-> <<>>]

\* The text of a completion: the JSON (or garbage) it carries, whether it is
\* wrapped in ``` fences and whether prose surrounds it.
Text(json, fence, prose) == [json |-> json, fence |-> fence, prose |-> prose]

\* text.replace(/```json\n?/g, '').replace(/```\n?/g, '').trim()
StripFences(text) == [text EXCEPT !.fence = FALSE]

\* indexOf('[') and lastIndexOf(']') both found: the text carries an array
HasBrackets(text) == text.json.type = "array"

\* cleanText.substring(startIndex, endIndex + 1) when both are found
CutToBrackets(text) == IF HasBrackets(text) THEN [text EXCEPT !.prose = FALSE] ELSE text

Clean(text) == CutToBrackets(StripFences(text))

\* JSON.parse(cleanText): the parsed value, or Undefined for a SyntaxError
JSONparse(text) ==
    IF text.fence \/ text.prose \/ text.json.type = "garbage"
    THEN Undefined
    ELSE Def(text.json)

HasSlice(v) == v.type \in {"array", "string"}

\* The provider call: model.generateContent(prompt) rejects, or resolves
\* with a text.
Rejected == [ok |-> FALSE]
Resolved(text) == [ok |-> TRUE, text |-> text]

\* generateQuizQuestions(difficulty, count) given the configured key, the
\* provider's outcome (read only when the key is configured), the shuffle
\* drawn by the catch block and the clock the catch block reads.
generateQuizQuestions(difficulty, count, key, outcome, perm, now) ==
    IF ~KeyConfigured(key) THEN Fallback(difficulty, count, perm, now)
    ELSE IF ~outcome.ok THEN Fallback(difficulty, count, perm, now)
    ELSE LET parsed == JSONparse(Clean(outcome.text))
         IN IF parsed = Undefined THEN Fallback(difficulty, count, perm, now)
            ELSE IF ~HasSlice(parsed[1]) THEN Fallback(difficulty, count, perm, now)
            ELSE Slice(parsed[1], count)


\* The validation list widened by a level the question pools do not have.
DifficultiesWithExpert == {"basic", "moderate", "harder", "expert"}

Difficulties == {"basic", "moderate", "harder"}

\* Date.now().toString()
SessionIdAt(now) == ToString(now)

\* Every id a session can get within the clock's bound; an id that is not
\* (yet) a key of the Map is an unknown id.
SessionIds == {SessionIdAt(t) : t \in 1..MaxClock}

Idle == [stage |-> "idle"]

\* One more step is taken by the server; the browser is left alone.
Step == steps < MaxSteps /\ steps' = steps + 1 /\ UNCHANGED app

\* loadUserStats with nothing stored (the topic progress, which no code
\* updates, is left out).
defaultStats ==
    [totalQuizzes |-> 0,
     totalQuestions |-> 0,
     correctAnswers |-> 0,
     averageScore |-> Num(0),
     bestScore |-> 0,
     streak |-> 0,
     lastQuizDate |-> Undefined,
     difficultyProgress |-> [d \in Difficulties |-> [completed |-> 0, bestScore |-> 0]]]

\* loadAchievements with nothing stored.
defaultAchievements ==
    [firstQuiz |-> FALSE,
     perfectScore |-> FALSE,
     streak5 |-> FALSE,
     streak10 |-> FALSE,
     allDifficulties |-> FALSE,
     speedDemon |-> FALSE,
     codeMaster |-> FALSE,
     persistent |-> FALSE]

\* The QuizApp constructor (0 stands for the null timer), with no interval,
\* timeout or request of the browser open. questions is the number of
\* questions held; presses counts the presses of Next so far; zone and now
\* are the time zone and the clock (in hours) of the browser.
NewQuizApp ==
    [currentQuestion |-> 0,
     timer |-> 0,
     timeLeft |-> TimerSeconds,
     answers |-> <<>>,
     questions |-> 0,
     screen |-> "difficulty",
     nextBtnDisabled |-> TRUE,
     optionsDisabled |-> FALSE,
     intervals |-> {},
     timeouts |-> 0,
     awaiting |-> 0,
     finishCalls |-> 0,
     presses |-> 0,
     resultsPending |-> 0,
     shown |-> 0,
     errorModal |-> FALSE,
     threw |-> FALSE,
     toastTimers |-> 0,
     uncaught |-> 0,
     userStats |-> defaultStats,
     achievements |-> defaultAchievements,
     zone |-> "fixed",
     now |-> 0]

NoResponse == [op |-> "none", sid |-> "", status |-> 0, body |-> <<>>]
Response(op, sid, status, body) == [op |-> op, sid |-> sid, status |-> status, body |-> body]
Error(text) == [error |-> text]

Init ==
    /\ clock = 1
    /\ apiKey \in ApiKeys
    /\ quizSessions = <<>>
    /\ pending = Idle
    /\ resp = NoResponse
    /\ delivered = [id \in SessionIds |-> Undefined]
    /\ steps = 0
    /\ app = NewQuizApp

\* A handler waiting on a promise would hold the thread.
AwaitBlocks == FALSE

\* Lines 66 and 309: await hands the thread back to the event loop.
AwaitYields == TRUE

\* A synchronous handler runs when no other handler holds the thread.
EventLoopFree == AwaitYields \/ pending = Idle

\* Time passes between two handler steps.
Tick ==
    /\ Step
    /\ clock < MaxClock
    /\ clock' = clock + 1
    /\ UNCHANGED <<apiKey, quizSessions, pending, resp, delivered>>

\* ------------------------------------------------------ POST /api/quiz/new
\* const { difficulty = 'basic' } = req.body
DifficultyOf(body) == IF body = Undefined THEN "basic" ELSE body[1]

\* Lines 302-306: the request is refused before any question is generated.
NewQuizRejected(body) ==
    /\ Step
    /\ EventLoopFree
    /\ DifficultyOf(body) \notin Difficulties
    /\ resp' = Response("new", "", 400, Error("Invalid difficulty level"))
    /\ UNCHANGED <<clock, apiKey, quizSessions, pending, delivered>>

\* Lines 302-309 when no key is configured: generateQuizQuestions throws and
\* catches synchronously, and the handler is suspended on its await with the
\* fallback questions already computed.
\* Lines 302-309 and 27-66 when a key is configured: the handler is suspended
\* on the provider call.
NewQuizStart(body, perm) ==
    LET difficulty == DifficultyOf(body) IN
    /\ Step
    /\ difficulty \in Difficulties
    /\ pending = Idle
    /\ pending' =
          IF KeyConfigured(apiKey)
          THEN [stage |-> "model", difficulty |-> difficulty]
          ELSE [stage |-> "resume", difficulty |-> difficulty,
                questions |-> generateQuizQuestions(difficulty, QuizCount, apiKey,
                                                    Rejected, perm, clock)]
    /\ UNCHANGED <<clock, apiKey, quizSessions, resp, delivered>>

\* Lines 66-85 and 86-294: the provider call settles and the rest of
\* generateQuizQuestions runs; the handler stays suspended on its own await.
ModelSettles(outcome, perm) ==
    /\ Step
    /\ pending.stage = "model"
    /\ pending' =
          [stage |-> "resume", difficulty |-> pending.difficulty,
           questions |-> generateQuizQuestions(pending.difficulty, QuizCount, apiKey,
                                               outcome, perm, clock)]
    /\ UNCHANGED <<clock, apiKey, quizSessions, resp, delivered>>

\* The session literal with the flag already set.
NewSessionCompleted(sessionId, difficulty, questions, now) ==
    [id |-> sessionId,
     difficulty |-> difficulty,
     questions |-> questions,
     currentQuestion |-> 0,
     answers |-> <<>>,
     startTime |-> now,
     completed |-> TRUE]

\* Lines 313-321
NewSession(sessionId, difficulty, questions, now) ==
    [id |-> sessionId,
     difficulty |-> difficulty,
     questions |-> questions,
     currentQuestion |-> 0,
     answers |-> <<>>,
     startTime |-> now,
     completed |-> FALSE]

\* The whole record handed out: the map that leaves the key in.
PublicQuestionsWithKey(questions) ==
    [k \in 1..Length(questions) |->
        [question |-> Get(questions.items[k], "question"),
         options |-> Get(questions.items[k], "options"),
         correct |-> Get(questions.items[k], "correct"),
         explanation |-> Get(questions.items[k], "explanation")]]

\* questions.map(q => ({question: q.question, options: q.options}))
PublicQuestions(questions) ==
    [k \in 1..Length(questions) |->
        [question |-> Get(questions.items[k], "question"),
         options |-> Get(questions.items[k], "options")]]

\* Array.prototype.map exists on arrays only: on a string the call throws.
HasMap(v) == v.type = "array"

\* A store that keeps the newest session only.
StoreSessionAlone(store, sessionId, session) ==
    [id \in {sessionId} |-> session]

\* quizSessions.set(sessionId, session)
StoreSession(store, sessionId, session) ==
    [id \in DOMAIN store \cup {sessionId} |->
        IF id = sessionId THEN session ELSE store[id]]

\* Lines 311-336: the handler resumes with the questions, stores the session
\* and answers; a throw after the set leaves the session stored.
NewQuizFinish ==
    LET req == pending
        sessionId == SessionIdAt(clock)
        session == NewSession(sessionId, req.difficulty, req.questions, clock)
    IN
    /\ Step
    /\ req.stage = "resume"
    /\ pending' = Idle
    /\ IF req.questions = Thrown
       THEN /\ resp' = Response("new", "", 500, Error("Failed to create quiz"))
            /\ UNCHANGED <<quizSessions, delivered>>
       ELSE /\ quizSessions' = StoreSession(quizSessions, sessionId, session)
            /\ delivered' = [delivered EXCEPT ![sessionId] = Undefined]
            /\ resp' = IF HasMap(req.questions)
                       THEN Response("new", sessionId, 200,
                                     [sessionId |-> sessionId,
                                      difficulty |-> req.difficulty,
                                      questions |-> PublicQuestions(req.questions)])
                       ELSE Response("new", sessionId, 500, Error("Failed to create quiz"))
    /\ UNCHANGED <<clock, apiKey>>

\* ---------------------------------------- POST /api/quiz/:sessionId/answer
\* History: a results body is sent; "again" marks one sent after an answer
\* was submitted to an already reviewed session.
Redelivered(before, body) ==
    Def([body |-> body,
         phase |-> IF before = Undefined THEN "once"
                   ELSE IF before[1].phase = "once" THEN "once" ELSE "again"])

\* History: an answer is submitted to a session whose results were sent.
Attempted(before) ==
    IF before = Undefined \/ before[1].phase # "once" THEN before
    ELSE Def([before[1] EXCEPT !.phase = "attempted"])

\* The answers object replaced by one that holds the new entry only.
SetAnswerAlone(answers, questionIndex, answer) ==
    [i \in {questionIndex} |-> answer]

\* session.answers[questionIndex] = answer
SetAnswer(answers, questionIndex, answer) ==
    [i \in DOMAIN answers \cup {questionIndex} |->
        IF i = questionIndex THEN answer ELSE answers[i]]

\* One answers object shared by every session of the store.
WriteAnswerShared(store, sessionId, questionIndex, answer) ==
    [id \in DOMAIN store |->
        [store[id] EXCEPT !.answers = SetAnswer(@, questionIndex, answer)]]

\* The answer written in place of the question it answers.
WriteAnswerOverQuestion(store, sessionId, questionIndex, answer) ==
    [store EXCEPT ![sessionId].questions.items =
        [k \in DOMAIN @ |-> IF k = questionIndex + 1 THEN [answer |-> answer] ELSE @[k]]]

\* The write that also moves the session on to the next question.
WriteAnswerAdvancing(store, sessionId, questionIndex, answer) ==
    [store EXCEPT ![sessionId].answers = SetAnswer(@, questionIndex, answer),
                  ![sessionId].currentQuestion = @ + 1]

\* Lines 347 and 357: the write goes to the answers of the session found
\* under sessionId.
WriteAnswer(store, sessionId, questionIndex, answer) ==
    [store EXCEPT ![sessionId].answers = SetAnswer(@, questionIndex, answer)]

\* The guard left out: a finished session accepts writes.
AnswerNeverRefused(session) == FALSE

\* Lines 352-354: the guard that refuses a write to a finished session.
AnswerRefused(session) == session.completed

RecordAnswer(sessionId, questionIndex, answer) ==
    /\ Step
    /\ EventLoopFree
    /\ IF sessionId \notin DOMAIN quizSessions
       THEN /\ resp' = Response("answer", sessionId, 404, Error("Quiz session not found"))
            /\ UNCHANGED quizSessions
       ELSE IF AnswerRefused(quizSessions[sessionId])
       THEN /\ resp' = Response("answer", sessionId, 400, Error("Quiz already completed"))
            /\ UNCHANGED quizSessions
       ELSE /\ quizSessions' = WriteAnswer(quizSessions, sessionId, questionIndex, answer)
            /\ resp' = Response("answer", sessionId, 200, [success |-> TRUE])
    /\ delivered' = [delivered EXCEPT ![sessionId] = Attempted(@)]
    /\ UNCHANGED <<clock, apiKey, pending>>

\* --------------------------------------- GET /api/quiz/:sessionId/results
\* The entry reads the answer of the next index.
ReviewEntryOffByOne(session, index) ==
    LET question == session.questions.items[index + 1]
        userAnswer == Get(session.answers, index + 1)
        isCorrect == StrictEq(userAnswer, Get(question, "correct"))
    IN [question |-> Get(question, "question"),
        userAnswer |-> userAnswer,
        correctAnswer |-> Get(question, "correct"),
        isCorrect |-> isCorrect,
        explanation |-> Get(question, "explanation")]

\* Lines 380-392: the review entry of the question at JavaScript index.
ReviewEntry(session, index) ==
    LET question == session.questions.items[index + 1]
        userAnswer == Get(session.answers, index)
        isCorrect == StrictEq(userAnswer, Get(question, "correct"))
    IN [question |-> Get(question, "question"),
        userAnswer |-> userAnswer,
        correctAnswer |-> Get(question, "correct"),
        isCorrect |-> isCorrect,
        explanation |-> Get(question, "explanation")]

Review(session) ==
    [k \in 1..Length(session.questions) |-> ReviewEntry(session, k - 1)]

\* let correct = 0; ... if (isCorrect) correct++
CorrectCount(results) == Cardinality({k \in DOMAIN results : results[k].isCorrect})

\* Math.floor in the place of Math.round.
MathFloor(num, den) ==
    IF den = 0 THEN NaN ELSE Num(num \div den)

\* Math.round(x) for x = num / den >= 0: floor(x + 1/2); 0 / 0 is NaN.
MathRound(num, den) ==
    IF den = 0 THEN NaN ELSE Num((2 * num + den) \div (2 * den))

\* Math.round((correct / session.questions.length) * 100)
Score(correct, total) == MathRound(correct * 100, total)

ResultsBody(session, now) ==
    LET results == Review(session)
        correct == CorrectCount(results)
    IN [score |-> Score(correct, Length(session.questions)),
        correct |-> correct,
        total |-> Length(session.questions),
        results |-> results,
        timeSpent |-> now - session.startTime,
        difficulty |-> session.difficulty]

\* The flag is not set.
MarkNothing(session) == session

\* Line 398
MarkCompleted(session) == [session EXCEPT !.completed = TRUE]

GetResults(sessionId) ==
    /\ Step
    /\ EventLoopFree
    /\ IF sessionId \notin DOMAIN quizSessions
       THEN /\ resp' = Response("results", sessionId, 404, Error("Quiz session not found"))
            /\ UNCHANGED <<quizSessions, delivered>>
       ELSE IF ~HasMap(quizSessions[sessionId].questions)
       THEN /\ resp' = Response("results", sessionId, 500, Error("Failed to get results"))
            /\ UNCHANGED <<quizSessions, delivered>>
       ELSE LET body == ResultsBody(quizSessions[sessionId], clock) IN
            /\ quizSessions' = [quizSessions EXCEPT ![sessionId] = MarkCompleted(@)]
            /\ resp' = Response("results", sessionId, 200, body)
            /\ delivered' = [delivered EXCEPT ![sessionId] = Redelivered(@, body)]
    /\ UNCHANGED <<clock, apiKey, pending>>

\* ----------------------------------------------- GET /api/quiz/:sessionId
\* The total written as the number of questions a quiz is asked to have.
InfoBodyFixedTotal(session) ==
    [id |-> session.id,
     difficulty |-> session.difficulty,
     currentQuestion |-> session.currentQuestion,
     totalQuestions |-> QuizCount,
     completed |-> session.completed]

InfoBody(session) ==
    [id |-> session.id,
     difficulty |-> session.difficulty,
     currentQuestion |-> session.currentQuestion,
     totalQuestions |-> Length(session.questions),
     completed |-> session.completed]

\* The lookup left unchecked: reading a property of undefined throws and the
\* handler's catch answers 500.
GetInfoUnchecked(sessionId) ==
    /\ Step
    /\ EventLoopFree
    /\ resp' = IF sessionId \notin DOMAIN quizSessions
               THEN Response("info", sessionId, 500, Error("Failed to get session"))
               ELSE Response("info", sessionId, 200, InfoBody(quizSessions[sessionId]))
    /\ UNCHANGED <<clock, apiKey, quizSessions, pending, delivered>>

GetInfo(sessionId) ==
    /\ Step
    /\ EventLoopFree
    /\ resp' = IF sessionId \notin DOMAIN quizSessions
               THEN Response("info", sessionId, 404, Error("Quiz session not found"))
               ELSE Response("info", sessionId, 200, InfoBody(quizSessions[sessionId]))
    /\ UNCHANGED <<clock, apiKey, quizSessions, pending, delivered>>

\* ------------------------------------------------------------------ inputs
\* Request bodies of POST /api/quiz/new: no difficulty, two valid ones and
\* one outside the enumeration.
NewQuizBodies == {Undefined, Def("basic"), Def("harder"), Def("expert")}

\* Completions the provider returns.
ModelTexts ==
    {Text(Array(<<gA, gB, gA>>), TRUE, TRUE),
     Text(Array(<<gShort, gNoKey>>), FALSE, FALSE),
     Text(Array(<<>>), FALSE, FALSE),
     Text(String(<<Char("o"), Char("k")>>), FALSE, FALSE),
     Text(NoSlice, FALSE, FALSE),
     Text(Garbage, FALSE, TRUE)}
ModelOutcomes == {Rejected} \cup {Resolved(t) : t \in ModelTexts}

\* (questionIndex, answer) pairs of POST .../answer bodies.
AnswerBodies == {<<0, 0>>, <<1, -1>>, <<1, 2>>, <<QuizCount, 0>>}

Next ==
    \/ Tick
    \/ \E body \in NewQuizBodies : NewQuizRejected(body)
    \/ \E body \in NewQuizBodies, perm \in Shuffles : NewQuizStart(body, perm)
    \/ \E outcome \in ModelOutcomes, perm \in Shuffles : ModelSettles(outcome, perm)
    \/ NewQuizFinish
    \/ \E sessionId \in SessionIds, b \in AnswerBodies : RecordAnswer(sessionId, b[1], b[2])
    \/ \E sessionId \in SessionIds : GetResults(sessionId)
    \/ \E sessionId \in SessionIds : GetInfo(sessionId)

Spec == Init /\ [][Next]_vars



\* ------------------------------------------- the creation specification
\* Only creation requests arrive. The event loop resumes a handler whose
\* awaited promise has settled (line 309), so NewQuizFinish is weakly fair;
\* the provider owes no answer, so ModelSettles has no fairness, and the code
\* sets no timer beside the call at lines 66-68.
CreateNext ==
    \/ \E body \in NewQuizBodies, perm \in Shuffles : NewQuizStart(body, perm)
    \/ \E outcome \in ModelOutcomes, perm \in Shuffles : ModelSettles(outcome, perm)
    \/ NewQuizFinish

SpecCreate == Init /\ [][CreateNext]_vars /\ WF_vars(NewQuizFinish)


\* ----------------------------------------------- the busy specification
\* A session was created at time 1 and a second creation request is
\* suspended on the provider call; no further creation request arrives.
BusyInit ==
    LET sessionId == SessionIdAt(1)
        questions == Fallback("basic", QuizCount, Rotation(0), 1)
    IN
    /\ clock = MaxClock
    /\ apiKey = Def("AIza-key")
    /\ quizSessions = [id \in {sessionId} |-> NewSession(sessionId, "basic", questions, 1)]
    /\ pending \in {[stage |-> "model", difficulty |-> d] : d \in {"basic", "harder"}}
    /\ resp = Response("new", sessionId, 200,
                       [sessionId |-> sessionId,
                        difficulty |-> "basic",
                        questions |-> PublicQuestions(questions)])
    /\ delivered = [id \in SessionIds |-> Undefined]
    /\ steps = 0
    /\ app = NewQuizApp

BusyNext ==
    \/ \E outcome \in ModelOutcomes, perm \in Shuffles : ModelSettles(outcome, perm)
    \/ NewQuizFinish
    \/ \E sessionId \in SessionIds, b \in AnswerBodies : RecordAnswer(sessionId, b[1], b[2])
    \/ \E sessionId \in SessionIds : GetResults(sessionId)
    \/ \E sessionId \in SessionIds : GetInfo(sessionId)

SpecBusy == BusyInit /\ [][BusyNext]_vars


\* ---------------------------------------------- the answers specification
\* Two sessions were created from the pools at times 1 and 2, the first one
\* has a timed-out answer to its second question; no creation request
\* arrives.
AnswersInit ==
    LET first == NewSession(SessionIdAt(1), "basic",
                            Fallback("basic", QuizCount, Rotation(0), 1), 1)
        second == NewSession(SessionIdAt(2), "harder",
                             Fallback("harder", QuizCount, Rotation(2), 2), 2)
    IN
    /\ clock = MaxClock
    /\ apiKey = Undefined
    /\ quizSessions = [id \in {SessionIdAt(1), SessionIdAt(2)} |->
                          IF id = SessionIdAt(1)
                          THEN [first EXCEPT !.answers = SetAnswer(@, 1, -1)]
                          ELSE second]
    /\ pending = Idle
    /\ resp = Response("answer", SessionIdAt(1), 200, [success |-> TRUE])
    /\ delivered = [id \in SessionIds |-> Undefined]
    /\ steps = 0
    /\ app = NewQuizApp

AnswersNext ==
    \/ \E sessionId \in SessionIds, b \in AnswerBodies : RecordAnswer(sessionId, b[1], b[2])
    \/ \E sessionId \in SessionIds : GetResults(sessionId)
    \/ \E sessionId \in SessionIds : GetInfo(sessionId)

SpecAnswers == AnswersInit /\ [][AnswersNext]_vars


\* ------------------------------------------ the acquisition specification
\* generateQuizQuestions called on its own, with tags the handler would have
\* refused and with counts other than ten, once in a behaviour. pending
\* holds the call that returned: its arguments, what the provider did, the
\* shuffle and the clock the catch block read, and the value returned.
AcquireTags == {"basic", "moderate", "harder", "expert", "constructor"}
AcquireCounts == {-1, 0, 1, 3, QuizCount, QuizCount + 2}

Acquire(difficulty, count, outcome, perm) ==
    /\ Step
    /\ pending = Idle
    /\ pending' = [stage |-> "returned",
                   difficulty |-> difficulty,
                   count |-> count,
                   outcome |-> outcome,
                   perm |-> perm,
                   now |-> clock,
                   questions |-> generateQuizQuestions(difficulty, count, apiKey,
                                                       outcome, perm, clock)]
    /\ UNCHANGED <<clock, apiKey, quizSessions, resp, delivered>>

AcquireNext ==
    \/ Tick
    \/ \E difficulty \in AcquireTags, count \in AcquireCounts,
          outcome \in ModelOutcomes, perm \in Shuffles :
            Acquire(difficulty, count, outcome, perm)

SpecAcquire == Init /\ [][AcquireNext]_vars

\* -------------------------------------------- the scoring specification
\* Sessions of every size 0..QuizCount, as a model completion of n records
\* creates them. The first `right` questions carry their correct answer,
\* the others carry no answer ("none"), a wrong option ("wrong") or the
\* client's no-answer value -1 ("timeout").
GeneratedQuestions(n) == Array([k \in 1..n |-> IF k % 2 = 1 THEN gA ELSE gB])

WrongOption(question) == (question.correct + 1) % 4

AnsweredSession(n, right, rest) ==
    LET fresh == NewSession(SessionIdAt(1), "basic", GeneratedQuestions(n), 1)
        answered == IF rest = "none" THEN 0..(right - 1) ELSE 0..(n - 1)
    IN [fresh EXCEPT !.answers =
            [i \in answered |->
                IF i < right THEN fresh.questions.items[i + 1].correct
                ELSE IF rest = "wrong" THEN WrongOption(fresh.questions.items[i + 1])
                ELSE -1]]

ScoreInit ==
    /\ clock = 1
    /\ apiKey = Def("AIza-key")
    /\ \E n \in 0..QuizCount, right \in 0..QuizCount, rest \in {"none", "wrong", "timeout"} :
          /\ right <= n
          /\ quizSessions = [id \in {SessionIdAt(1)} |-> AnsweredSession(n, right, rest)]
    /\ pending = Idle
    /\ resp = NoResponse
    /\ delivered = [id \in SessionIds |-> Undefined]
    /\ steps = 0
    /\ app = NewQuizApp

ScoreNext ==
    \/ \E sessionId \in {SessionIdAt(1)} : GetResults(sessionId)
    \/ \E sessionId \in {SessionIdAt(1)} : GetInfo(sessionId)

SpecScore == ScoreInit /\ [][ScoreNext]_vars


\* -------------------------------------------------------------- the browser
\* clearInterval(id)
clearInterval(a, id) == [a EXCEPT !.intervals = @ \ {id}]

\* The id setInterval returns: one no running interval and no field holds.
NewTimerId(a) ==
    CHOOSE id \in 1..(Cardinality(a.intervals) + 2) :
        /\ id \notin a.intervals \cup {a.timer}
        /\ \A lower \in 1..(id - 1) : lower \in a.intervals \cup {a.timer}

\* Lines 378-411 up to the setInterval call.
startTimer(a) ==
    LET id == NewTimerId(a) IN
    [a EXCEPT !.timeLeft = TimerSeconds, !.timer = id, !.intervals = @ \cup {id}]

\* Lines 321-353: the options are built anew and Next is disabled.
displayQuestion(a) == [a EXCEPT !.nextBtnDisabled = TRUE, !.optionsDisabled = FALSE]

\* Lines 505-507: the results request is sent.
finishQuiz(a) == [a EXCEPT !.finishCalls = @ + 1, !.resultsPending = @ + 1]

\* Lines 621-624
showError(a) == [a EXCEPT !.errorModal = TRUE]

\* Hours of the local days 0, 1 and 2 of the browser's time zone: a zone
\* without daylight saving, one whose day 1 ends summer time, and one whose
\* day 1 begins it.
DayLengths(zone) ==
    CASE zone = "fixed" -> <<24, 24, 24>>
      [] zone = "autumn" -> <<24, 25, 24>>
      [] zone = "spring" -> <<24, 23, 24>>

\* The hour at which a local day begins.
RECURSIVE DayStart(_, _)
DayStart(zone, day) ==
    IF day = 0 THEN 0 ELSE DayStart(zone, day - 1) + DayLengths(zone)[day]

\* new Date(t).toDateString(): the local day the hour t lies in (the days
\* before day 0 have 24 hours).
toDateString(zone, t) ==
    IF t < 0 THEN -((DayHours - 1 - t) \div DayHours)
    ELSE CHOOSE day \in 0..2 : DayStart(zone, day) <= t /\ t < DayStart(zone, day + 1)

\* The score shown last, whatever the best was.
LatestScore(score, best) == score

\* Lines 736-738 and 743-745: the best score is replaced by a higher one.
BestScore(score, best) == IF score > best THEN score ELSE best

\* The toasts shown before showAchievements returns: this.showToast is no
\* method of QuizApp, so the call throws.
showAchievementsAtOnce(a, count) == [a EXCEPT !.threw = TRUE]

\* Lines 826-832: one timeout is set for each new achievement.
showAchievements(a, count) == [a EXCEPT !.toastTimers = @ + count]

\* Lines 765-821
checkAchievements(a, results) ==
    LET stats == a.userStats
        earned ==
            [firstQuiz |-> stats.totalQuizzes = 1,
             perfectScore |-> results.score = 100,
             streak5 |-> stats.streak >= 5,
             streak10 |-> stats.streak >= 10,
             allDifficulties |-> \A d \in DOMAIN stats.difficultyProgress :
                                    stats.difficultyProgress[d].completed > 0,
             speedDemon |-> results.timeSpent < 300000,
             codeMaster |-> results.difficulty = "harder" /\ results.score >= 90,
             persistent |-> stats.totalQuestions >= 100]
        newAchievements == {name \in DOMAIN earned : ~a.achievements[name] /\ earned[name]}
        b == [a EXCEPT !.achievements = [name \in DOMAIN earned |-> @[name] \/ earned[name]]]
    IN IF newAchievements # {} THEN showAchievements(b, Cardinality(newAchievements)) ELSE b

\* Lines 728-760. A difficulty that difficultyProgress does not hold makes
\* line 742 throw, after the three totals were counted.
updateUserStats(a, results, now) ==
    LET stats == a.userStats
        totalQuestions == stats.totalQuestions + results.total
        correctAnswers == stats.correctAnswers + results.correct
        counted == [stats EXCEPT !.totalQuizzes = @ + 1,
                                 !.totalQuestions = totalQuestions,
                                 !.correctAnswers = correctAnswers,
                                 !.averageScore = MathRound(correctAnswers * 100, totalQuestions),
                                 !.bestScore = BestScore(results.score, @)]
        today == toDateString(a.zone, now)
        yesterday == toDateString(a.zone, now - DayHours)
    IN IF results.difficulty \notin DOMAIN stats.difficultyProgress
       THEN [a EXCEPT !.userStats = counted, !.threw = TRUE]
       ELSE checkAchievements(
              [a EXCEPT !.userStats =
                  [counted EXCEPT
                      !.difficultyProgress[results.difficulty] =
                          [completed |-> @.completed + 1,
                           bestScore |-> BestScore(results.score, @.bestScore)],
                      !.streak = IF stats.lastQuizDate = Def(today) THEN @
                                 ELSE IF stats.lastQuizDate = Def(yesterday) THEN @ + 1
                                 ELSE 1,
                      !.lastQuizDate = Def(today)]],
              results)

\* Lines 525-560: the results screen is shown and the statistics are
\* updated; shown counts the displays that ran to their end.
showResults(a, results, now) ==
    LET b == updateUserStats([a EXCEPT !.screen = "results", !.now = now], results, now)
    IN IF b.threw THEN b ELSE [b EXCEPT !.shown = @ + 1]

\* Lines 473-479: nextQuestion after its await.
nextQuestionResume(a) ==
    LET b == [a EXCEPT !.currentQuestion = @ + 1] IN
    IF b.currentQuestion >= b.questions
    THEN finishQuiz(b)
    ELSE startTimer(displayQuestion(b))

\* Lines 461-471: nextQuestion up to its await; with no answer to submit
\* it runs on at once.
nextQuestion(a) ==
    LET b == IF a.timer # 0 THEN clearInterval(a, a.timer) ELSE a IN
    IF a.currentQuestion \in DOMAIN a.answers
    THEN [b EXCEPT !.awaiting = @ + 1]
    ELSE nextQuestionResume(b)

\* Lines 423-438. showCorrectAnswer reads question.correct of
\* this.questions[this.currentQuestion]: past the last question that throws
\* and the timeout is not set.
timeUp(a) ==
    LET b == clearInterval(a, a.timer)
        c == IF b.currentQuestion \in DOMAIN b.answers THEN b
             ELSE [b EXCEPT !.answers = SetAnswer(@, b.currentQuestion, -1)]
    IN IF c.currentQuestion >= c.questions THEN c
       ELSE [c EXCEPT !.optionsDisabled = TRUE, !.timeouts = @ + 1]

\* Lines 288-296: startQuiz after the creation response arrived.
QuizStarted(count) ==
    startTimer(displayQuestion([NewQuizApp EXCEPT !.questions = count, !.screen = "quiz"]))

\* Lines 358-373, by a click on an option or a key 1-4 (the key handler
\* skips options marked disabled; so does this model for clicks).
SelectOption(optionIndex) ==
    /\ app.screen = "quiz"
    /\ ~app.optionsDisabled
    /\ app' = [app EXCEPT !.answers = SetAnswer(@, app.currentQuestion, optionIndex),
                          !.nextBtnDisabled = FALSE]
    /\ UNCHANGED server

\* Lines 183-185 and 246-248: a click on Next or the Enter key.
NextPressed ==
    /\ app.screen = "quiz"
    /\ ~app.nextBtnDisabled
    /\ app.presses < MaxPresses
    /\ app' = nextQuestion([app EXCEPT !.presses = @ + 1])
    /\ UNCHANGED server

\* Lines 388-410: the callback of a running interval.
IntervalFires(id) ==
    /\ id \in app.intervals
    /\ app.timeLeft > -MaxOverrun
    /\ app' = LET b == [app EXCEPT !.timeLeft = @ - 1]
              IN IF b.timeLeft <= 0 THEN timeUp(b) ELSE b
    /\ UNCHANGED server

\* Lines 435-437: the callback of setTimeout.
TimeoutFires ==
    /\ app.timeouts > 0
    /\ app' = nextQuestion([app EXCEPT !.timeouts = @ - 1])
    /\ UNCHANGED server

\* Lines 485-500 and 468: the answer request of a suspended nextQuestion
\* ends (answered or failed) and nextQuestion runs on.
AnswerSubmitted ==
    /\ app.awaiting > 0
    /\ app' = nextQuestionResume([app EXCEPT !.awaiting = @ - 1])
    /\ UNCHANGED server

\* Lines 508-519: a successful results response arrives and showResults
\* runs inside the try of finishQuiz, whose catch shows the error modal.
ResultsShown(results, now) ==
    /\ app.resultsPending > 0
    /\ now >= app.now
    /\ app' = LET b == showResults([app EXCEPT !.resultsPending = @ - 1], results, now)
              IN IF b.threw THEN showError([b EXCEPT !.threw = FALSE]) ELSE b
    /\ UNCHANGED server

\* Lines 509-511 and 516-519: the results request fails or is answered
\* with an error status.
ResultsFailed ==
    /\ app.resultsPending > 0
    /\ app' = showError([app EXCEPT !.resultsPending = @ - 1])
    /\ UNCHANGED server

\* Lines 213-225 and 629-631: the error modal is closed.
HideError ==
    /\ app.errorModal
    /\ app' = [app EXCEPT !.errorModal = FALSE]
    /\ UNCHANGED server

\* Lines 828-830: the callback of a timeout of showAchievements reads
\* this.showToast, which is undefined: the call throws with nothing to
\* catch it.
ToastFires ==
    /\ app.toastTimers > 0
    /\ app' = [app EXCEPT !.toastTimers = @ - 1, !.uncaught = @ + 1]
    /\ UNCHANGED server

\* A successful results response (lines 399-406 of server.js), without its
\* review, for a quiz of total questions.
Results(correct, total, difficulty, timeSpent) ==
    [score |-> Score(correct, total)[1],
     correct |-> correct,
     total |-> total,
     timeSpent |-> timeSpent,
     difficulty |-> difficulty]

\* ------------------------------------------------- the quiz specification
\* The browser plays a quiz that has just started.
QuizInit ==
    /\ clock = 1
    /\ apiKey = Undefined
    /\ quizSessions = <<>>
    /\ pending = Idle
    /\ resp = NoResponse
    /\ delivered = [id \in SessionIds |-> Undefined]
    /\ steps = 0
    /\ app = QuizStarted(MaxQuestions)

QuizNext ==
    \/ \E optionIndex \in {0} : SelectOption(optionIndex)
    \/ NextPressed
    \/ \E id \in app.intervals : IntervalFires(id)
    \/ TimeoutFires
    \/ AnswerSubmitted
    \/ ResultsShown(Results(0, MaxQuestions, "basic", 400000), app.now)

SpecQuiz == QuizInit /\ [][QuizNext]_vars

\* ------------------------------------------- the statistics specification
\* The browser finishes quiz after quiz; each results response is one the
\* server can send for ten questions.
StatsResults ==
    {Results(correct, QuizCount, difficulty, timeSpent) :
        correct \in {5, 9, 10}, difficulty \in Difficulties, timeSpent \in {200000, 400000}}

\* The results arrive at once or a day later, within the three days.
StatsHours == {now \in {app.now, app.now + DayHours} : now < DayStart(app.zone, 3)}

\* A quiz was played to its end.
QuizFinished ==
    /\ app.finishCalls < MaxQuizzes
    /\ app' = finishQuiz(app)
    /\ UNCHANGED server

StatsInit ==
    /\ clock = 1
    /\ apiKey = Undefined
    /\ quizSessions = <<>>
    /\ pending = Idle
    /\ resp = NoResponse
    /\ delivered = [id \in SessionIds |-> Undefined]
    /\ steps = 0
    /\ app = NewQuizApp

StatsNext ==
    \/ QuizFinished
    \/ \E results \in StatsResults, now \in StatsHours : ResultsShown(results, now)
    \/ ResultsFailed
    \/ HideError
    \/ ToastFires

SpecStats == StatsInit /\ [][StatsNext]_vars

\* ----------------------------------------------- the streak specification
\* Quizzes of one result are finished at chosen hours of three days, in a
\* time zone with or without a change of clock.
Zones == {"fixed", "autumn", "spring"}

\* The first two hours, noon and the last two hours of each day.
Hours(zone) ==
    UNION {{DayStart(zone, day), DayStart(zone, day) + 1, DayStart(zone, day) + 12,
            DayStart(zone, day + 1) - 2, DayStart(zone, day + 1) - 1} : day \in 0..2}

StreakInit ==
    /\ clock = 1
    /\ apiKey = Undefined
    /\ quizSessions = <<>>
    /\ pending = Idle
    /\ resp = NoResponse
    /\ delivered = [id \in SessionIds |-> Undefined]
    /\ steps = 0
    /\ \E zone \in Zones : app = [NewQuizApp EXCEPT !.zone = zone]

StreakNext ==
    \/ QuizFinished
    \/ \E now \in Hours(app.zone) : ResultsShown(Results(5, QuizCount, "basic", 400000), now)
    \/ ToastFires

SpecStreak == StreakInit /\ [][StreakNext]_vars

\* ------------------------------------------------------------------ claims
Stored(id) == id \in DOMAIN quizSessions
Completed(id) == Stored(id) /\ quizSessions[id].completed

ResultsSent == resp.op = "results" /\ resp.status = 200

\* C1: once a session is completed, every recordAnswer on it is answered
\* 400 "Quiz already completed" and the store (the session's answers with
\* it) is left as it was.
C1_CompletedRefusesAnswer ==
    [][\A sessionId \in SessionIds, b \in AnswerBodies :
          (Completed(sessionId) /\ RecordAnswer(sessionId, b[1], b[2]))
          => /\ resp' = Response("answer", sessionId, 400, Error("Quiz already completed"))
             /\ quizSessions' = quizSessions]_vars

\* A completed session that holds answers has just refused one more.
C1_Witness ==
    /\ resp.op = "answer" /\ resp.status = 400
    /\ Completed(resp.sid)
    /\ DOMAIN quizSessions[resp.sid].answers # {}

\* C2: the completed flag observed under an id never goes back from true
\* to false, whatever request runs.
C2_CompletedMonotonic ==
    [][\A id \in SessionIds : Completed(id) => Completed(id)']_vars

\* What a results body says apart from timeSpent.
Outcome(body) == [score |-> body.score, correct |-> body.correct, results |-> body.results]

\* C3: a successful results call on a session returns the score, the
\* correct count and the review of the previous successful call on it,
\* whatever recordAnswer attempts came between the two.
C3_ResultsIdempotent ==
    [][\A sessionId \in SessionIds :
          (GetResults(sessionId) /\ resp'.status = 200 /\ delivered[sessionId] # Undefined)
          => Outcome(resp'.body) = Outcome(delivered[sessionId][1].body)]_vars

\* Results were sent, an answer was then submitted to the session, and
\* results were sent again.
C3_Witness ==
    /\ ResultsSent
    /\ delivered[resp.sid] # Undefined
    /\ delivered[resp.sid][1].phase = "again"
    /\ DOMAIN quizSessions[resp.sid].answers # {}

\* C4: a session creation never stores its session under an id that is
\* already a key of the store (ids are distinct, nothing is overwritten).
C4_CreateNeverOverwrites ==
    [][NewQuizFinish => ~Stored(SessionIdAt(clock))]_vars

\* The QuestionRecord shape: exactly 4 options and a correct index in 0..3.
WellShaped(q) ==
    /\ "options" \in DOMAIN q /\ Len(q.options) = 4
    /\ "correct" \in DOMAIN q /\ q.correct \in 0..3

AllWellShaped(questions) ==
    /\ questions.type = "array"
    /\ \A k \in 1..Length(questions) : WellShaped(questions.items[k])

\* C5: every question stored in a session has the QuestionRecord shape
\* (model output that is no array, or has an ill-shaped element, never
\* reaches a session).
C5_StoredQuestionsWellShaped ==
    \A id \in DOMAIN quizSessions : AllWellShaped(quizSessions[id].questions)

\* C6: what generateQuizQuestions(d, c) returns is a sequence of at most c
\* records, each of the QuestionRecord shape.
C6_AcquireReturnsWellShaped ==
    pending.stage = "resume"
    => /\ AllWellShaped(pending.questions)
       /\ Length(pending.questions) <= QuizCount

\* C7: the keys of every session's answers lie in 0..N-1, N the number of
\* its questions.
C7_AnswersInRange ==
    \A id \in DOMAIN quizSessions :
        DOMAIN quizSessions[id].answers \subseteq 0..(Length(quizSessions[id].questions) - 1)

\* C8: for a session of N >= 1 questions the score sent is the integer s
\* with s - 1/2 <= correct / N * 100 < s + 1/2 (round half up), correct being
\* the number of right answers; N=10 with 7 right gives 70, N=3 with 2 right
\* gives 67, N=3 with 1 right gives 33.
C8_ScoreRoundsHalfUp ==
    (ResultsSent /\ resp.body.total >= 1)
    => LET N == resp.body.total
           correct == resp.body.correct
       IN /\ \E s \in 0..100 :
                /\ resp.body.score = Num(s)
                /\ (2 * s - 1) * N <= 200 * correct
                /\ 200 * correct < (2 * s + 1) * N
          /\ (N = 10 /\ correct = 7) => resp.body.score = Num(70)
          /\ (N = 3 /\ correct = 2) => resp.body.score = Num(67)
          /\ (N = 3 /\ correct = 1) => resp.body.score = Num(33)

\* Three questions, two answered right, the third answered wrong: 67.
C8_Witness ==
    /\ ResultsSent
    /\ resp.body.total = 3 /\ resp.body.correct = 2
    /\ resp.body.score = Num(67)
    /\ DOMAIN quizSessions[resp.sid].answers = 0..2

\* C9: the review holds one entry per question, in question order; entry i
\* names question i's text and correct index, is marked correct exactly when
\* the answer stored at i is that correct index, and the counts sent are the
\* number of entries marked correct and N. (An entry with neither a stored
\* answer nor a correct index is the case of C10 and is left to it.)
C9_ReviewMatchesAnswers ==
    ResultsSent
    => LET session == quizSessions[resp.sid]
           N == Length(session.questions)
           body == resp.body
       IN /\ Len(body.results) = N
          /\ body.total = N
          /\ body.correct = Cardinality({k \in 1..Len(body.results) : body.results[k].isCorrect})
          /\ \A i \in 0..(N - 1) :
                LET question == session.questions.items[i + 1]
                    entry == body.results[i + 1]
                IN /\ entry.question = Get(question, "question")
                   /\ entry.correctAnswer = Get(question, "correct")
                   /\ (i \in DOMAIN session.answers \/ "correct" \in DOMAIN question)
                      => (entry.isCorrect <=>
                            /\ i \in DOMAIN session.answers
                            /\ "correct" \in DOMAIN question
                            /\ session.answers[i] = question.correct)

\* The review of a session with a right answer and a wrong attempt.
C9_Witness ==
    /\ ResultsSent
    /\ resp.body.total = QuizCount
    /\ resp.body.results[1].isCorrect
    /\ resp.body.results[2].userAnswer = Def(2)
    /\ ~resp.body.results[2].isCorrect
    /\ resp.body.results[2].correctAnswer = Def(0)
    /\ resp.body.correct = 1

\* The client's "Your answer:" text of a review entry. JSON drops an
\* undefined userAnswer, and String.fromCharCode(65 + undefined) is the
\* character of code 0.
YourAnswer(userAnswer) ==
    IF userAnswer = Def(-1) THEN [text |-> "No answer"]
    ELSE IF userAnswer = Undefined THEN [charCode |-> 0]
    ELSE [charCode |-> (65 + userAnswer[1]) % 65536]

NoAnswer(userAnswer) == userAnswer = Undefined \/ userAnswer = Def(-1)

\* C10: a review entry whose question got no answer (none recorded, or the
\* no-answer value -1 recorded) is marked incorrect, and its "Your answer"
\* text differs from that of every attempted option 0..3.
C10_UnansweredIsIncorrect ==
    ResultsSent
    => \A k \in 1..Len(resp.body.results) :
          LET entry == resp.body.results[k] IN
          NoAnswer(entry.userAnswer)
          => /\ ~entry.isCorrect
             /\ \A option \in 0..3 : YourAnswer(entry.userAnswer) # YourAnswer(Def(option))

\* C11: an answer, a results request and an info request that name an id the
\* store does not hold are each answered 404 "Quiz session not found", and
\* the step leaves the store, with every session in it, as it was.
NotFound(op, sessionId) ==
    Response(op, sessionId, 404, Error("Quiz session not found"))
C11_UnknownSessionNotFound ==
    [][\A sessionId \in SessionIds :
         ~Stored(sessionId) =>
            /\ \A b \in AnswerBodies :
                  RecordAnswer(sessionId, b[1], b[2]) =>
                     resp' = NotFound("answer", sessionId) /\ quizSessions' = quizSessions
            /\ GetResults(sessionId) =>
                  resp' = NotFound("results", sessionId) /\ quizSessions' = quizSessions
            /\ GetInfo(sessionId) =>
                  resp' = NotFound("info", sessionId) /\ quizSessions' = quizSessions]_vars
\* An unknown id is refused while another session sits in the store.
C11_Witness ==
    /\ resp.status = 404
    /\ resp.op \in {"answer", "results", "info"}
    /\ ~Stored(resp.sid)
    /\ \E id \in SessionIds : Stored(id) /\ quizSessions[id].answers # <<>>

\* C12: a creation request whose difficulty is none of basic, moderate and
\* harder is answered 400 "Invalid difficulty level"; no generation is
\* started for it (the handler never reaches the generator), and the store
\* and the request in flight are left as they were.
InvalidDifficulty(body) == DifficultyOf(body) \notin {"basic", "moderate", "harder"}
C12_InvalidDifficultyRejected ==
    [][\A body \in NewQuizBodies :
         InvalidDifficulty(body) =>
            /\ \A perm \in Shuffles : ~NewQuizStart(body, perm)
            /\ NewQuizRejected(body) =>
                  /\ resp' = Response("new", "", 400, Error("Invalid difficulty level"))
                  /\ quizSessions' = quizSessions
                  /\ pending' = pending]_vars
\* The refusal is sent while a session is stored and no request is in flight.
C12_Witness ==
    /\ resp.op = "new" /\ resp.status = 400
    /\ pending = Idle
    /\ \E id \in SessionIds : Stored(id)

\* C13: a creation request with a valid difficulty is answered with success
\* whatever the generator met (no key, a rejected provider call, a completion
\* that is no question array): the handler's last step sends status 200 and
\* leaves a session stored under the id it sends.
C13_GeneratorFailureAbsorbed ==
    [][NewQuizFinish =>
         /\ resp'.status = 200
         /\ SessionIdAt(clock) \in DOMAIN quizSessions']_vars

\* C14: a creation request that is suspended on the provider call is
\* eventually answered, also when the provider never settles the call (the
\* two steps the rest of the handler needs are within the step budget).
C14_CreationEventuallyAnswered ==
    (pending.stage = "model" /\ steps + 2 <= MaxSteps) ~> (pending = Idle)

\* C15: while a creation request is suspended (on the provider call, which
\* may never settle, or on its own await), an answer, a results request and
\* an info request for each stored session can run at once and are answered
\* for that session (within the step budget).
Processed(sessionId) == resp'.sid = sessionId /\ resp'.status # 404
C15_SuspendedCreationBlocksNobody ==
    (pending # Idle /\ steps < MaxSteps) =>
        \A sessionId \in DOMAIN quizSessions :
            /\ \A b \in AnswerBodies :
                  ENABLED (RecordAnswer(sessionId, b[1], b[2]) /\ Processed(sessionId))
            /\ ENABLED (GetResults(sessionId) /\ Processed(sessionId))
            /\ ENABLED (GetInfo(sessionId) /\ Processed(sessionId))
\* With the provider call still open, an answer was accepted and the info
\* of the session shows it not completed.
C15_Witness ==
    /\ pending.stage = "model"
    /\ resp.op = "info" /\ resp.status = 200
    /\ \E id \in SessionIds : Stored(id) /\ quizSessions[id].answers # <<>>

\* C16: an answer recorded under one id leaves every other stored session
\* (its answers, questions and completed flag) as it was, and an accepted
\* answer is found under the id it was sent to.
C16_AnswersStayInTheirSession ==
    [][\A sessionId \in SessionIds, b \in AnswerBodies :
         RecordAnswer(sessionId, b[1], b[2]) =>
            /\ \A other \in DOMAIN quizSessions \ {sessionId} :
                  other \in DOMAIN quizSessions' /\ quizSessions'[other] = quizSessions[other]
            /\ resp'.status = 200 => quizSessions'[sessionId].answers[b[1]] = b[2]]_vars
\* Answers were recorded under both ids in turn and each session holds its
\* own: an answer to the second question in one, to the first in the other.
C16_Witness ==
    /\ Stored(SessionIdAt(1)) /\ Stored(SessionIdAt(2))
    /\ DOMAIN quizSessions[SessionIdAt(1)].answers = {1}
    /\ DOMAIN quizSessions[SessionIdAt(2)].answers = {0}
    /\ quizSessions[SessionIdAt(1)].answers[1] = 2
    /\ resp = Response("answer", SessionIdAt(2), 200, [success |-> TRUE])

\* C17: an accepted answer to index i of a session not completed sets the
\* stored answer of i to the submitted value, whatever was stored there, and
\* leaves the stored answer of every other index, and the set of answered
\* indexes apart from i, as they were: after a series of calls each index
\* holds the value of the last accepted call for it.
C17_LastWriteWinsPerIndex ==
    [][\A sessionId \in SessionIds, b \in AnswerBodies :
         (RecordAnswer(sessionId, b[1], b[2]) /\ resp'.status = 200) =>
            LET before == quizSessions[sessionId].answers
                after == quizSessions'[sessionId].answers
            IN /\ DOMAIN after = DOMAIN before \cup {b[1]}
               /\ after[b[1]] = b[2]
               /\ \A j \in DOMAIN before \ {b[1]} : after[j] = before[j]]_vars
\* The timed-out answer to the second question was replaced by a later
\* answer, the first question was answered too, and no other index is.
C17_Witness ==
    /\ Stored(SessionIdAt(1))
    /\ DOMAIN quizSessions[SessionIdAt(1)].answers = {0, 1}
    /\ quizSessions[SessionIdAt(1)].answers[1] = 2
    /\ ~quizSessions[SessionIdAt(1)].completed

\* C18: a step of recordAnswer, of computeResults or of get-info keeps every
\* stored session in the store with the id, difficulty, questions and
\* startTime it had.
Immutable(session) ==
    <<session.id, session.difficulty, session.questions, session.startTime>>
C18_CreationFieldsFrozen ==
    [][(\E sessionId \in SessionIds :
          \/ \E b \in AnswerBodies : RecordAnswer(sessionId, b[1], b[2])
          \/ GetResults(sessionId)
          \/ GetInfo(sessionId))
       => \A id \in DOMAIN quizSessions :
             /\ id \in DOMAIN quizSessions'
             /\ Immutable(quizSessions'[id]) = Immutable(quizSessions[id])]_vars
\* A session created at time 1 was answered and reviewed at a later time and
\* still carries its id, its start time and its ten questions.
C18_Witness ==
    /\ ResultsSent /\ Completed(resp.sid)
    /\ clock > 1
    /\ quizSessions[resp.sid].answers # <<>>
    /\ quizSessions[resp.sid].id = resp.sid
    /\ quizSessions[resp.sid].startTime = 1
    /\ Length(quizSessions[resp.sid].questions) = QuizCount

\* C19: a stored session is completed exactly when a results request on it
\* has succeeded since it was created; creation stores it not completed, and
\* a step of recordAnswer or of get-info leaves the flag of every session as
\* it was.
Reviewed(id) == delivered[id] # Undefined
FlagsKept ==
    \A id \in DOMAIN quizSessions :
        id \in DOMAIN quizSessions' /\ quizSessions'[id].completed = quizSessions[id].completed
C19_CompletedIffReviewed ==
    /\ [](\A id \in DOMAIN quizSessions : quizSessions[id].completed <=> Reviewed(id))
    /\ [][/\ NewQuizFinish => ~quizSessions'[SessionIdAt(clock)].completed
          /\ (\E sessionId \in SessionIds :
                 \/ \E b \in AnswerBodies : RecordAnswer(sessionId, b[1], b[2])
                 \/ GetInfo(sessionId)) => FlagsKept]_vars
\* One session was reviewed and is completed; another, created later and
\* never reviewed, is not.
C19_Witness ==
    \E id, other \in SessionIds :
        /\ Completed(id) /\ Reviewed(id)
        /\ Stored(other) /\ ~Completed(other) /\ ~Reviewed(other)
        /\ quizSessions[other].startTime > quizSessions[id].startTime

\* C20: the body of a successful creation response and of a successful info
\* response is the one the handler computes for any session that differs
\* from the stored one only in the correct index and the explanation of its
\* questions (both removed, or both replaced): neither response carries the
\* answer key.
KeyRemoved(q) == [f \in DOMAIN q \ {"correct", "explanation"} |-> q[f]]
KeyReplaced(q) ==
    [f \in DOMAIN q \cup {"correct", "explanation"} |->
        IF f = "correct" THEN 3
        ELSE IF f = "explanation" THEN String(<<Char("x")>>)
        ELSE q[f]]
KeyVariants(session) ==
    {[session EXCEPT !.questions.items = [k \in DOMAIN @ |-> KeyRemoved(@[k])]],
     [session EXCEPT !.questions.items = [k \in DOMAIN @ |-> KeyReplaced(@[k])]]}
C20_ResponsesHideAnswerKey ==
    (resp.status = 200 /\ resp.op \in {"new", "info"}) =>
        \A v \in KeyVariants(quizSessions[resp.sid]) :
            /\ resp.op = "new" =>
                  resp.body = [sessionId |-> v.id,
                               difficulty |-> v.difficulty,
                               questions |-> PublicQuestions(v.questions)]
            /\ resp.op = "info" => resp.body = InfoBody(v)
\* A session whose questions carry a correct index other than the replaced
\* one, and an explanation, was created and its creation response sent.
C20_Witness ==
    /\ resp.op = "new" /\ resp.status = 200
    /\ Length(quizSessions[resp.sid].questions) > 0
    /\ \A k \in DOMAIN quizSessions[resp.sid].questions.items :
          LET q == quizSessions[resp.sid].questions.items[k] IN
          /\ {"correct", "explanation"} \subseteq DOMAIN q
          /\ q.correct # 3

\* The call that returned found no usable model output: no key, a
\* rejected provider call, a text JSON.parse refuses or a parsed value
\* without slice.
Returned == pending.stage = "returned"
GeneratorFailed ==
    \/ ~KeyConfigured(apiKey)
    \/ ~pending.outcome.ok
    \/ JSONparse(Clean(pending.outcome.text)) = Undefined
    \/ ~HasSlice(JSONparse(Clean(pending.outcome.text))[1])
FromPool(q, d) ==
    \E i \in 1..PoolSize :
        /\ q.options = PoolRecord(d, i).options
        /\ q.correct = PoolRecord(d, i).correct
        /\ q.explanation = PoolRecord(d, i).explanation

\* C21: when the generator fails, a call for basic, moderate or harder
\* returns an array each of whose records has the options, the correct index
\* and the explanation of one record of that difficulty's list (the texts of
\* the three lists are disjoint, so none comes from another list).
C21_FallbackServesOwnPool ==
    (Returned /\ GeneratorFailed /\ pending.difficulty \in {"basic", "moderate", "harder"}) =>
        /\ pending.questions.type = "array"
        /\ \A k \in 1..Length(pending.questions) :
              FromPool(pending.questions.items[k], pending.difficulty)
\* A configured key, a completion that is no JSON, and three records of the
\* harder list returned.
C21_Witness ==
    /\ Returned /\ KeyConfigured(apiKey)
    /\ pending.outcome.ok /\ pending.outcome.text.json = Garbage
    /\ pending.difficulty = "harder" /\ pending.count = 3
    /\ Length(pending.questions) = 3

\* C22: when the generator fails, a call for a tag other than basic,
\* moderate and harder returns (it does not throw) an array of records of
\* the basic list.
C22_UnknownTagServesBasic ==
    (Returned /\ GeneratorFailed /\ pending.difficulty \notin {"basic", "moderate", "harder"}) =>
        /\ pending.questions.type = "array"
        /\ \A k \in 1..Length(pending.questions) :
              FromPool(pending.questions.items[k], "basic")

\* C23: whatever was acquired before, every list of the pool holds its ten
\* source records in source order, and, when no key is configured (every
\* session is served from the pool), each question of each stored session
\* is a source record of the session's difficulty whose text carries one
\* session marker: no mark or order of an earlier acquisition shows.
Marked(q, d) ==
    /\ Len(q.question) = 3
    /\ q.question[2] \in 1..PoolSize
    /\ q.question[3] \in 1..(MaxClock + QuizCount)
    /\ q = [PoolRecord(d, q.question[2]) EXCEPT !.question = WithMarker(@, q.question[3])]
C23_PoolUnchangedByUse ==
    /\ \A d \in {"basic", "moderate", "harder"} :
          /\ Len(fallbackQuestions[d]) = PoolSize
          /\ \A i \in 1..PoolSize : fallbackQuestions[d][i] = PoolRecord(d, i)
    /\ ~KeyConfigured(apiKey) =>
          \A id \in DOMAIN quizSessions :
             \A k \in 1..Length(quizSessions[id].questions) :
                Marked(quizSessions[id].questions.items[k], quizSessions[id].difficulty)
\* Two sessions of one difficulty were served from the pool one after the
\* other, in different orders.
C23_Witness ==
    /\ ~KeyConfigured(apiKey)
    /\ Stored(SessionIdAt(1)) /\ Stored(SessionIdAt(2))
    /\ quizSessions[SessionIdAt(1)].difficulty = quizSessions[SessionIdAt(2)].difficulty
    /\ quizSessions[SessionIdAt(1)].questions.items[1].options
          # quizSessions[SessionIdAt(2)].questions.items[1].options

\* C24: every step keeps every stored id in the store, and an answer, a
\* results request or an info request that names a stored id is not
\* answered 404.
C24_SessionsNeverRemoved ==
    [][/\ DOMAIN quizSessions \subseteq DOMAIN quizSessions'
       /\ \A sessionId \in DOMAIN quizSessions :
             ((\E b \in AnswerBodies : RecordAnswer(sessionId, b[1], b[2]))
                \/ GetResults(sessionId) \/ GetInfo(sessionId))
             => resp'.status # 404]_vars
\* After a second session was created, the first one is still found.
C24_Witness ==
    /\ Stored(SessionIdAt(1)) /\ Stored(SessionIdAt(2))
    /\ quizSessions[SessionIdAt(2)].startTime = 2
    /\ resp.sid = SessionIdAt(1)
    /\ resp.op \in {"answer", "results", "info"}
    /\ resp.status = 200

\* C25: an info request on a stored session is answered 200 with the id and
\* the difficulty of the session, its completed flag as it stands and, as
\* totalQuestions, the length of its questions; the store is left as it was.
C25_InfoReportsSession ==
    [][\A sessionId \in DOMAIN quizSessions :
         GetInfo(sessionId) =>
            /\ resp'.status = 200
            /\ resp'.body.id = quizSessions[sessionId].id
            /\ resp'.body.difficulty = quizSessions[sessionId].difficulty
            /\ resp'.body.completed = quizSessions[sessionId].completed
            /\ resp'.body.totalQuestions = Len(quizSessions[sessionId].questions.items)
            /\ quizSessions' = quizSessions]_vars
\* The info of a completed session of three generated questions, with an
\* answer stored, was sent.
C25_Witness ==
    /\ resp.op = "info" /\ resp.status = 200
    /\ resp.body.completed
    /\ resp.body.totalQuestions = 3
    /\ quizSessions[resp.sid].answers # <<>>

\* C27: when the generator fails and a list is served, for a count that is
\* not negative, the returned array has min(count, 10) records, and they are
\* the records at the first positions of the shuffle drawn, each once: the
\* record at k is a copy of the list's record perm[k].
ListServed == Returned /\ GeneratorFailed /\ ~Inherited(pending.difficulty)
ServedFrom == IF pending.difficulty \in {"basic", "moderate", "harder"}
              THEN pending.difficulty ELSE "basic"
C27_FallbackIsPrefixOfShuffle ==
    (ListServed /\ pending.count >= 0) =>
        /\ pending.questions.type = "array"
        /\ Length(pending.questions) = Min(pending.count, PoolSize)
        /\ \A k \in 1..Length(pending.questions) :
              pending.questions.items[k].options
                 = PoolRecord(ServedFrom, pending.perm[k]).options
        /\ \A j, k \in 1..Length(pending.questions) :
              j # k => pending.questions.items[j].options # pending.questions.items[k].options
\* Twelve questions were asked of a list of ten, with a shuffle that is not
\* the source order: ten were returned.
C27_Witness ==
    /\ ListServed
    /\ pending.count = QuizCount + 2
    /\ pending.perm = Rotation(2)
    /\ Length(pending.questions) = PoolSize

\* C28: when the completion parses to an array of k records, for a count
\* that is not negative, the call returns an array of min(count, k) records,
\* the record at each position being the parsed record at that position.
ParsedArray ==
    /\ Returned /\ KeyConfigured(apiKey) /\ pending.outcome.ok
    /\ JSONparse(Clean(pending.outcome.text)) # Undefined
    /\ pending.outcome.text.json.type = "array"
C29_AcceptedAnswerIsReviewed ==
    \A id \in DOMAIN quizSessions :
        delivered[id] # Undefined =>
            LET body == delivered[id][1].body IN
            \A i \in DOMAIN quizSessions[id].answers :
                /\ i + 1 \in DOMAIN body.results
                /\ body.results[i + 1].userAnswer = Def(quizSessions[id].answers[i])

\* C30: every results body sent carries a score that is an integer from 0
\* to 100 and a correct count from 0 to the number of questions.
C30_ScoreAndCountInRange ==
    ResultsSent =>
        /\ resp.body.score \in {Num(n) : n \in 0..100}
        /\ resp.body.correct \in 0..resp.body.total

\* C26: in the browser, a timer that starts sets timeLeft to 60 and is the
\* one interval running; each callback of an interval takes 1 from timeLeft;
\* the callback that brings timeLeft to 0 leaves no interval running,
\* records -1 for the question on display if it has no answer, and sets the
\* timeout; the timeout's callback calls nextQuestion (which moves on, at
\* once or after the answer was submitted).
C26_OwnCountdownPerQuestion ==
    [][/\ app'.timer # app.timer =>
             (app'.timeLeft = TimerSeconds /\ app'.intervals = {app'.timer})
       /\ \A id \in app.intervals :
             IntervalFires(id) =>
                /\ app'.timeLeft = app.timeLeft - 1
                /\ app'.timeLeft = 0 =>
                      /\ app'.intervals = {}
                      /\ app.currentQuestion \in DOMAIN app'.answers
                      /\ app.currentQuestion \notin DOMAIN app.answers
                            => app'.answers[app.currentQuestion] = -1
                      /\ app'.timeouts = app.timeouts + 1
       /\ TimeoutFires =>
             \/ app'.currentQuestion = app.currentQuestion + 1
             \/ app'.awaiting = app.awaiting + 1]_vars


\* C31: in the browser, whatever the order of Next clicks, Enter keys and
\* time-up advances, every change of currentQuestion is an increase by one
\* that either displays the question it arrives at, or, arriving at the
\* number of questions, invokes finishQuiz; and finishQuiz is invoked at
\* most once in a quiz.
C31_OneAdvancePerQuestion ==
    /\ [](app.finishCalls <= 1)
    /\ [][app'.currentQuestion # app.currentQuestion =>
             /\ app'.currentQuestion = app.currentQuestion + 1
             /\ IF app'.currentQuestion < app.questions
                THEN app'.nextBtnDisabled /\ ~app'.optionsDisabled /\ app'.finishCalls = 0
                ELSE app'.currentQuestion = app.questions /\ app'.finishCalls = 1]_vars


\* C32: in the browser at most one countdown interval is running at any
\* time, and timeLeft never drops below 0.
C32_AtMostOneInterval ==
    /\ Cardinality(app.intervals) <= 1
    /\ app.timeLeft >= 0


\* C33: the browser requests the results only after every answer it
\* submitted has been answered: once finishQuiz was invoked, no invocation
\* of nextQuestion is waiting for its answer request.
C33_ResultsAfterAllAnswers == app.finishCalls > 0 => app.awaiting = 0


\* C35: every stored session has currentQuestion 0, and every info response
\* reports currentQuestion 0, whatever answers and results went before.
C35_CurrentQuestionStaysZero ==
    /\ \A sessionId \in DOMAIN quizSessions : quizSessions[sessionId].currentQuestion = 0
    /\ (resp.op = "info" /\ resp.status = 200) => resp.body.currentQuestion = 0
\* The info of a completed session that holds an answer was sent.
C35_Witness ==
    /\ resp.op = "info" /\ resp.status = 200
    /\ resp.body.currentQuestion = 0
    /\ quizSessions[resp.sid].completed
    /\ quizSessions[resp.sid].answers # <<>>


\* The step displays the results response (the counts are compared first:
\* a step that ResultsShown describes has them).
Displays(results) ==
    /\ app'.userStats.correctAnswers = app.userStats.correctAnswers + results.correct
    /\ app'.userStats.totalQuestions = app.userStats.totalQuestions + results.total
    /\ app'.now \in StatsHours
    /\ ResultsShown(results, app'.now)

\* C34: every step in which a successful results response arrives shows the
\* results screen, runs the display to its end and leaves the error modal
\* as it was, also when achievements are unlocked; the callbacks set for
\* the achievements leave the error modal as it was too.
C34_ResultsDisplayedWithoutError ==
    [][/\ (\E results \in StatsResults : Displays(results))
          => /\ app'.screen = "results"
             /\ app'.shown = app.shown + 1
             /\ app'.errorModal = app.errorModal
       /\ ToastFires => app'.errorModal = app.errorModal]_vars
\* A first quiz with a perfect score was displayed, which unlocked
\* achievements whose callbacks have all run, and no error modal is shown.
C34_Witness ==
    /\ app.shown = 1
    /\ app.userStats.totalQuizzes = 1
    /\ app.achievements.firstQuiz /\ app.achievements.perfectScore
    /\ app.toastTimers = 0 /\ app.uncaught >= 2
    /\ ~app.errorModal
    /\ app.screen = "results"


C37_DayStreak ==
    [][app'.shown = app.shown + 1 =>
          LET today == toDateString(app.zone, app'.now)
              previous == app.userStats.lastQuizDate
          IN /\ app'.userStats.streak =
                   IF previous = Def(today) THEN app.userStats.streak
                   ELSE IF previous = Def(today - 1) THEN app.userStats.streak + 1
                   ELSE 1
             /\ app'.userStats.streak >= 1]_vars

====
